---- MODULE Spec2Model ----
(***************************************************************************)
(* Model of voxelbotutils.cogs.utils.paginator.Paginator (construction,  *)
(* get_page and the interactive session run by start) and of              *)
(* voxelbotutils.cogs.error_handler.ErrorHandler.on_command_error.        *)
(*                                                                         *)
(* Python values that can have more than one type are tagged records:     *)
(* an int n is [t |-> "int", v |-> n], the string '?' is                  *)
(* [t |-> "str", s |-> "?"] and None is [t |-> "None"].                   *)
(***************************************************************************)
EXTENDS Integers, Sequences, FiniteSets, TLC

(* ---------------------------- bounds ---------------------------------- *)
MaxLen == 5          \* longest data sequence / most batches of a generator
MaxPerPage == 2      \* largest per_page
MaxEvents == 2       \* most matching reaction events handled in a session
MaxIgnored == 1      \* most non-matching events seen in a session
MaxDirectCalls == 2  \* most get_page calls made before start
TimeoutTicks == 1    \* length of one wait cycle, in clock ticks

(* ------------------------- Python values ------------------------------ *)
PyInt(n) == [t |-> "int", v |-> n]
Unknown == [t |-> "str", s |-> "?"]
None == [t |-> "None"]

Min(a, b) == IF a < b THEN a ELSE b
Max(a, b) == IF a > b THEN a ELSE b

\* The bounds of s[a:b] as Python normalises them for a sequence of length n.
SliceIndex(i, n) == IF i < 0 THEN Max(i + n, 0) ELSE Min(i, n)

\* s[a:b] for a Python sequence s (0-based, negative indices count from the end).
PySlice(s, a, b) ==
    LET lo == SliceIndex(a, Len(s))
        hi == SliceIndex(b, Len(s))
    IN  IF lo >= hi THEN << >> ELSE SubSeq(s, lo + 1, hi)

(* --------------------------- source kinds ----------------------------- *)
SequenceKinds == {"sequence"}
AsyncGenKinds == {"asyncgenfunction", "asyncgen"}
SyncGenKinds == {"generatorfunction", "generator"}
DataKinds == SequenceKinds \cup AsyncGenKinds \cup SyncGenKinds
FormatterKinds == {"str", "embed", "dict"}

valid_emojis == << "first", "previous", "stop", "next", "last" >>
Emojis == {valid_emojis[i] : i \in 1..Len(valid_emojis)} \cup {"other"}
Users == {"author", "someone"}
Messages == {"message", "elsewhere"}
EventKinds == {"raw_reaction_add", "raw_reaction_remove"}
Payloads == [emoji : Emojis, user_id : Users, message_id : Messages, event : EventKinds]

VARIABLES
    data_kind,       \* which of the inspect.* tests self.data passes
    data,            \* the sequence, or the batches a generator would yield
    per_page,
    formatter_kind,  \* what self.formatter returns: str, Embed or dict
    max_pages,
    current_page,
    _page_cache,
    pc,              \* position of start: init, render, await, stopped, returned, raised
    err,             \* the exception that left start or the last direct get_page
    sent,            \* texts passed to ctx.send
    reaction_tasks,  \* emojis for which an add_reaction task was created
    last_payload,
    edits,           \* number of message.edit calls
    get_page_calls,  \* number of get_page calls made by start
    formatter_calls,
    waits,           \* number of asyncio.wait calls
    clear_calls,     \* number of message.clear_reactions calls
    source_reads,    \* number of times get_page went to self.data
    result,          \* what the last get_page call returned
    first_result,    \* page number -> outcome of the first get_page call for it
    prev_render,     \* the normalised payload of the previous render
    timer,           \* ticks left in the current wait cycle
    subscriptions,   \* wait_for tasks that are neither done nor cancelled
    done,            \* done wait_for tasks whose result has not been read
    last_event,      \* the payload handled last
    events,
    ignored,
    direct_calls

VARIABLES
    error,             \* the error on_command_error was called with
    ctx,               \* what the handler reads of the invocation context
    config,            \* bot.config, None when the bot has no such attribute
    output,            \* the local output of on_command_error
    handler_pc,        \* where on_command_error is suspended
    raised,            \* the exception type that left on_command_error
    text,              \* send_to_ctx_or_author: text
    author_text,       \* send_to_ctx_or_author: author_text
    channel_messages,  \* texts delivered by ctx.send
    author_messages,   \* texts delivered by ctx.author.send
    owner_messages,    \* number of owner.send calls that delivered
    webhook_messages,  \* number of webhook.send calls that delivered
    owners_left,       \* owners the DM loop has not reached yet
    reinvoked          \* number of ctx.reinvoke calls

handler_vars == << error, ctx, config, output, handler_pc, raised, text,
                   author_text, channel_messages, author_messages,
                   owner_messages, webhook_messages, owners_left, reinvoked >>

vars == << data_kind, data, per_page, formatter_kind, max_pages, current_page,
           _page_cache, pc, err, sent, reaction_tasks, last_payload, edits,
           get_page_calls, formatter_calls, waits, clear_calls, source_reads,
           result, first_result, prev_render, timer, subscriptions, done,
           last_event, events, ignored, direct_calls, handler_vars >>

paginator_vars == << data_kind, data, per_page, formatter_kind, max_pages,
                     current_page, _page_cache, pc, err, sent, reaction_tasks,
                     last_payload, edits, get_page_calls, formatter_calls,
                     waits, clear_calls, source_reads, result, first_result,
                     prev_render, timer, subscriptions, done, last_event,
                     events, ignored, direct_calls >>

inputs == << data_kind, data, per_page, formatter_kind >>
counters == << events, ignored, direct_calls >>

(* --------------------------- construction ----------------------------- *)
data_is_generator(k) == k \in AsyncGenKinds \cup SyncGenKinds

\* Paginator.__init__: max_pages
InitMaxPages(k, d, p) ==
    IF data_is_generator(k)
    THEN Unknown
    ELSE LET pages == Len(d) \div p
             left_over == Len(d) % p
         IN  PyInt(IF left_over # 0 THEN pages + 1 ELSE pages)

\* No command error has been dispatched to the handler.
HandlerIdle ==
    /\ error = None
    /\ ctx = None
    /\ config = None
    /\ output = None
    /\ handler_pc = "idle"
    /\ raised = "none"
    /\ text = None
    /\ author_text = None
    /\ channel_messages = << >>
    /\ author_messages = << >>
    /\ owner_messages = 0
    /\ webhook_messages = 0
    /\ owners_left = 0
    /\ reinvoked = 0

PaginatorInit ==
    /\ data_kind \in DataKinds
    /\ \E n \in 0..MaxLen :
          data = IF data_is_generator(data_kind)
                 THEN [i \in 1..n |-> << i >>]
                 ELSE [i \in 1..n |-> i]
    /\ per_page \in 1..MaxPerPage
    /\ formatter_kind \in FormatterKinds
    /\ max_pages = InitMaxPages(data_kind, data, per_page)
    /\ current_page = None
    /\ _page_cache = << >>
    /\ pc = "init"
    /\ err = "none"
    /\ sent = << >>
    /\ reaction_tasks = << >>
    /\ last_payload = None
    /\ edits = 0
    /\ get_page_calls = 0
    /\ formatter_calls = 0
    /\ waits = 0
    /\ clear_calls = 0
    /\ source_reads = 0
    /\ result = None
    /\ first_result = << >>
    /\ prev_render = None
    /\ timer = 0
    /\ subscriptions = {}
    /\ done = {}
    /\ last_event = None
    /\ events = 0
    /\ ignored = 0
    /\ direct_calls = 0

Init == PaginatorInit /\ HandlerIdle

(* ----------------------------- get_page ------------------------------- *)
PyList(v) == [t |-> "list", items |-> v]

\* What the expression that reads a generator-like self.data raises:
\* next() on an async generator (or on a function), or the attribute
\* __anext__ looked up on a plain generator (or on a function).
PullOutcome(k) == IF k \in AsyncGenKinds THEN "TypeError" ELSE "AttributeError"

\* The slice taken one item short.
PageSlice_Short(d, p, n) == PySlice(d, n * p, (n + 1) * p - 1)

\* self.data[page_number * self.per_page: (page_number + 1) * self.per_page]
PageSlice(d, p, n) == PySlice(d, n * p, (n + 1) * p)

\* get_page taking an empty slice of a sequence for the end of the data, as
\* the exhaustion of a generator is.
get_page_EmptyEndsData(n) ==
    IF n \in DOMAIN _page_cache
    THEN [ret |-> PyList(_page_cache[n]), exc |-> "none",
          cache |-> _page_cache, max |-> max_pages, reads |-> 0]
    ELSE IF data_is_generator(data_kind)
    THEN [ret |-> None, exc |-> PullOutcome(data_kind),
          cache |-> _page_cache, max |-> max_pages, reads |-> 1]
    ELSE LET v == PySlice(data, n * per_page, (n + 1) * per_page)
         IN  [ret |-> PyList(v), exc |-> "none",
              cache |-> _page_cache @@ (n :> v),
              max |-> IF v = << >> THEN PyInt(n) ELSE max_pages, reads |-> 1]

\* Paginator.get_page(n): the value returned (or the exception raised) and the
\* values of _page_cache and max_pages it leaves.
get_page(n) ==
    IF n \in DOMAIN _page_cache
    THEN [ret |-> PyList(_page_cache[n]), exc |-> "none",
          cache |-> _page_cache, max |-> max_pages, reads |-> 0]
    ELSE IF data_is_generator(data_kind)
    THEN LET o == PullOutcome(data_kind)
         IN  IF o \in {"StopIteration", "StopAsyncIteration"}
             THEN \* max_pages is set, then "return v" reads the unbound v
                  [ret |-> None, exc |-> "UnboundLocalError",
                   cache |-> _page_cache, max |-> PyInt(n), reads |-> 1]
             ELSE [ret |-> None, exc |-> o,
                   cache |-> _page_cache, max |-> max_pages, reads |-> 1]
    ELSE LET v == PageSlice(data, per_page, n)
         IN  [ret |-> PyList(v), exc |-> "none",
              cache |-> _page_cache @@ (n :> v), max |-> max_pages, reads |-> 1]

\* A call as its caller sees it: the page asked for and what came back.
Outcome(n, r) == [page |-> n, ret |-> r.ret, exc |-> r.exc]

NoteFirst(n, r) ==
    IF n \in DOMAIN first_result THEN first_result
    ELSE first_result @@ (n :> Outcome(n, r))

\* The page numbers asked for directly: one that wraps around as a negative
\* slice index, the first page and one past the end of any data.
PageNumbers == {0 - 2, 0, MaxLen}

\* A get_page call made on the paginator before start is run.
GetPageCall(n) ==
    /\ pc = "init"
    /\ direct_calls < MaxDirectCalls
    /\ LET r == get_page(n)
       IN  /\ _page_cache' = r.cache
           /\ max_pages' = r.max
           /\ result' = Outcome(n, r)
           /\ err' = r.exc
           /\ source_reads' = source_reads + r.reads
           /\ first_result' = NoteFirst(n, r)
    /\ direct_calls' = direct_calls + 1
    /\ UNCHANGED << handler_vars, inputs, current_page, pc, sent, reaction_tasks, last_payload,
                    edits, get_page_calls, formatter_calls, waits, clear_calls,
                    prev_render, timer, subscriptions, done, last_event, events,
                    ignored >>

(* ------------------------------ start --------------------------------- *)
\* The test made against one page instead of none.
NoData_OnePage(mp) == mp = PyInt(1)

\* Line 63: there is nothing to show.
NoData(mp) == mp = PyInt(0)

\* The emojis added for a single page too.
HasControls_AtLeastOne(mp) == mp.v >= 1

\* Line 69: the emojis are added if there's more than one page.
HasControls(mp) == mp.v > 1

\* Lines 61-78: the initial values, the first message and the reactions.
\* send_ok: whether ctx.send succeeds.
Start(send_ok) ==
    /\ pc = "init"
    /\ current_page' = PyInt(0)
    /\ IF NoData(max_pages)
       THEN /\ sent' = Append(sent, "There's no data to be shown.")
            /\ pc' = IF send_ok THEN "returned" ELSE "raised"
            /\ err' = IF send_ok THEN "none" ELSE "HTTPException"
            /\ UNCHANGED reaction_tasks
       ELSE /\ sent' = Append(sent, "Menu loading...")
            /\ IF ~send_ok
               THEN /\ pc' = "raised"
                    /\ err' = "HTTPException"
                    /\ UNCHANGED reaction_tasks
               ELSE IF max_pages.t # "int"
               THEN \* '?' > 1
                    /\ pc' = "raised"
                    /\ err' = "TypeError"
                    /\ UNCHANGED reaction_tasks
               ELSE /\ pc' = "render"
                    /\ err' = "none"
                    /\ reaction_tasks' = IF HasControls(max_pages) THEN valid_emojis
                                         ELSE reaction_tasks
    /\ UNCHANGED << handler_vars, inputs, max_pages, _page_cache, last_payload, edits,
                    get_page_calls, formatter_calls, waits, clear_calls,
                    source_reads, result, first_result, prev_render, timer,
                    subscriptions, done, last_event, counters >>

\* self.formatter(self, items): the page text carries the page number, the
\* page count and the items, as the default formatter's does. An Embed is a
\* new object at every call and compares by identity (id is the call's
\* number); strings and dicts compare by value.
Formatter(k, cp, mp, items, call) ==
    LET body == [page |-> cp + 1, of |-> mp, items |-> items]
    IN  IF k = "str" THEN [t |-> "text", body |-> body]
        ELSE IF k = "embed" THEN [t |-> "Embed", id |-> call, body |-> body]
        ELSE [t |-> "dict", d |-> [content |-> [t |-> "text", body |-> body]]]

SetDefault(d, k, v) == IF k \in DOMAIN d THEN d ELSE d @@ (k :> v)

\* Lines 87-92: the payload as the keyword arguments of message.edit.
Normalize(payload) ==
    LET d == IF payload.t = "Embed" THEN [embed |-> payload]
             ELSE IF payload.t = "text" THEN [content |-> payload]
             ELSE payload.d
    IN  SetDefault(SetDefault(d, "content", None), "embed", None)

\* Line 93.
NeedsEdit(payload, last) == payload # last

\* Line 95: "payload = last_payload" leaves last_payload as it was.
NextLastPayload(payload, last) == last

\* Line 96: a single page needs no wait loop.
OnlyPage(mp) == mp = PyInt(1)

\* The time left of the previous wait carried into the next one.
WaitTimer_Remaining(remaining) == remaining

\* Line 106: every asyncio.wait call is given the whole timeout; remaining is
\* what was left of the previous wait.
WaitTimer(remaining) == TimeoutTicks

\* Lines 84-106: one pass of the loop up to the wait.
\* edit_ok: whether message.edit succeeds. The local done is reset at line
\* 100 and ceases to exist when start is left.
Render(edit_ok) ==
    /\ pc = "render"
    /\ done' = {}
    /\ LET r == get_page(current_page.v)
       IN  /\ get_page_calls' = get_page_calls + 1
           /\ _page_cache' = r.cache
           /\ max_pages' = r.max
           /\ result' = Outcome(current_page.v, r)
           /\ source_reads' = source_reads + r.reads
           /\ first_result' = NoteFirst(current_page.v, r)
           /\ IF r.exc # "none"
              THEN /\ pc' = "raised"
                   /\ err' = r.exc
                   /\ UNCHANGED << formatter_calls, edits, last_payload, prev_render,
                                   waits, timer, subscriptions >>
              ELSE LET payload == Normalize(Formatter(formatter_kind, current_page.v,
                                                      r.max, r.ret.items,
                                                      formatter_calls + 1))
                       edit == NeedsEdit(payload, last_payload)
                   IN  /\ formatter_calls' = formatter_calls + 1
                       /\ prev_render' = payload
                       /\ edits' = IF edit THEN edits + 1 ELSE edits
                       /\ IF edit /\ ~edit_ok
                          THEN /\ pc' = "raised"
                               /\ err' = "HTTPException"
                               /\ UNCHANGED << last_payload, waits, timer, subscriptions >>
                          ELSE /\ last_payload' = NextLastPayload(payload, last_payload)
                               /\ err' = "none"
                               /\ IF OnlyPage(r.max)
                                  THEN /\ pc' = "returned"
                                       /\ UNCHANGED << waits, timer, subscriptions >>
                                  ELSE /\ pc' = "await"
                                       /\ waits' = waits + 1
                                       /\ timer' = WaitTimer(timer)
                                       /\ subscriptions' = EventKinds
    /\ UNCHANGED << handler_vars, inputs, current_page, sent, reaction_tasks, clear_calls,
                    last_event, counters >>

(* ------------------------- waiting for input -------------------------- *)
\* Line 102: the check both wait_for calls are given.
check(p) ==
    /\ \E i \in 1..Len(valid_emojis) : valid_emojis[i] = p.emoji
    /\ p.user_id = "author"
    /\ p.message_id = "message"

\* The stop symbol mapped to the page it was pressed on.
Candidate_StopKeepsPage(emoji, i, mp) ==
    IF emoji = "first" THEN PyInt(0)
    ELSE IF emoji = "previous" THEN PyInt(i - 1)
    ELSE IF emoji = "stop" THEN PyInt(i)
    ELSE IF emoji = "next" THEN PyInt(i + 1)
    ELSE mp

\* The last-page symbol mapped as the next-page symbol is.
Candidate_LastAsNext(emoji, i, mp) ==
    IF emoji = "first" THEN PyInt(0)
    ELSE IF emoji = "previous" THEN PyInt(i - 1)
    ELSE IF emoji = "stop" THEN None
    ELSE PyInt(i + 1)

\* Lines 118-124: the candidate page for a reaction.
Candidate(emoji, i, mp) ==
    IF emoji = "first" THEN PyInt(0)
    ELSE IF emoji = "previous" THEN PyInt(i - 1)
    ELSE IF emoji = "stop" THEN None
    ELSE IF emoji = "next" THEN PyInt(i + 1)
    ELSE mp

\* The upper bound tested with > instead of >=.
Clamp_StrictUpper(c, mp) ==
    IF c > mp THEN mp - 1
    ELSE IF c < 0 THEN 0
    ELSE c

\* Lines 128-132: the page number made valid.
Clamp(c, mp) ==
    IF c >= mp THEN mp - 1
    ELSE IF c < 0 THEN 0
    ELSE c

\* Lines 112-132: the result of the task that done.pop() returns is applied
\* and the pending tasks are cancelled.
HandleReaction(p) ==
    /\ pc = "await"
    /\ check(p)
    /\ events < MaxEvents
    /\ events' = events + 1
    /\ last_event' = p
    /\ subscriptions' = {}      \* one task is done, the pending one is cancelled
    /\ LET c == Candidate(p.emoji, current_page.v, max_pages)
       IN  IF c = None
           THEN /\ current_page' = None
                /\ pc' = "stopped"
                /\ UNCHANGED err
           ELSE IF c.t # "int" \/ max_pages.t # "int"
           THEN \* an int compared with '?', or '?' - 1
                /\ current_page' = c
                /\ pc' = "raised"
                /\ err' = "TypeError"
           ELSE /\ current_page' = PyInt(Clamp(c.v, max_pages.v))
                /\ pc' = "render"
                /\ UNCHANGED err
    /\ UNCHANGED << handler_vars, inputs, max_pages, _page_cache, sent, reaction_tasks,
                    last_payload, edits, get_page_calls, formatter_calls, waits,
                    clear_calls, source_reads, result, first_result, prev_render,
                    timer, ignored, direct_calls >>

\* A matching event completes one of the two wait_for tasks and asyncio.wait
\* returns it as the only member of done.
ReactionEvent(p) ==
    /\ HandleReaction(p)
    /\ done' = {}

OtherEvent(k) == CHOOSE o \in EventKinds : o # k

\* Matching events complete both wait_for tasks before asyncio.wait is
\* resumed: done holds both, done.pop() returns either, and the result of the
\* other is never read. popped_first: whether the task that done.pop()
\* returns (the one p completed) was the first of the two to complete.
ReactionRace(p, popped_first) ==
    /\ HandleReaction(p)
    /\ {q \in Payloads : check(q) /\ q.event # p.event} # {}
    /\ done' = {[event |-> OtherEvent(p.event),
                 completed |-> IF popped_first THEN "later" ELSE "earlier"]}

\* An event the check rejects: both wait_for tasks keep waiting.
IgnoredEvent(p) ==
    /\ pc = "await"
    /\ ~check(p)
    /\ ignored < MaxIgnored
    /\ ignored' = ignored + 1
    /\ UNCHANGED << handler_vars, inputs, max_pages, current_page, _page_cache, pc, err, sent,
                    reaction_tasks, last_payload, edits, get_page_calls,
                    formatter_calls, waits, clear_calls, source_reads, result,
                    first_result, prev_render, timer, subscriptions, done,
                    last_event, events, direct_calls >>

\* Time passes while asyncio.wait is waiting.
Tick ==
    /\ pc = "await"
    /\ timer > 0
    /\ timer' = timer - 1
    /\ UNCHANGED << handler_vars, inputs, max_pages, current_page, _page_cache, pc, err, sent,
                    reaction_tasks, last_payload, edits, get_page_calls,
                    formatter_calls, waits, clear_calls, source_reads, result,
                    first_result, prev_render, subscriptions, done, last_event,
                    counters >>

\* Lines 106-110: asyncio.wait returns with nothing done; the loop is left.
Timeout ==
    /\ pc = "await"
    /\ timer = 0
    /\ pc' = "stopped"
    /\ UNCHANGED << handler_vars, inputs, max_pages, current_page, _page_cache, err, sent,
                    reaction_tasks, last_payload, edits, get_page_calls,
                    formatter_calls, waits, clear_calls, source_reads, result,
                    first_result, prev_render, timer, subscriptions, done,
                    last_event, counters >>

\* Lines 134-138. clear_ok: whether message.clear_reactions succeeds. When it
\* fails, the except clause evaluates discord.Exception, which does not exist.
ClearReactions(clear_ok) ==
    /\ pc = "stopped"
    /\ clear_calls' = clear_calls + 1
    /\ pc' = IF clear_ok THEN "returned" ELSE "raised"
    /\ err' = IF clear_ok THEN "none" ELSE "AttributeError"
    /\ done' = {}
    /\ UNCHANGED << handler_vars, inputs, max_pages, current_page, _page_cache, sent,
                    reaction_tasks, last_payload, edits, get_page_calls,
                    formatter_calls, waits, source_reads, result, first_result,
                    prev_render, timer, subscriptions, last_event, counters >>

Next ==
    \/ \E n \in PageNumbers : GetPageCall(n)
    \/ \E ok \in BOOLEAN : Start(ok)
    \/ \E ok \in BOOLEAN : Render(ok)
    \/ \E p \in Payloads : ReactionEvent(p)
    \/ \E p \in Payloads, popped_first \in BOOLEAN : ReactionRace(p, popped_first)
    \/ \E p \in Payloads : IgnoredEvent(p)
    \/ Tick
    \/ Timeout
    \/ \E ok \in BOOLEAN : ClearReactions(ok)

Spec == Init /\ [][Next]_vars

TypeOK == pc \in {"init", "render", "await", "stopped", "returned", "raised"}

(* ========================= error_handler.py =========================== *)
MaxText == 3     \* longest str(error)
MaxOwners == 2   \* most entries of config['owners']

PyStr(s) == [t |-> "str", s |-> s]
PyTuple(v) == [t |-> "tuple", items |-> v]

\* The exception classes the handler tells apart, with the ancestors that
\* isinstance sees.
IgnoredErrors == {"CommandNotFound", "InvokedMetaCommand"}
OwnerReinvokeErrors == {"MissingRole", "MissingAnyRole", "MissingPermissions",
                        "CommandOnCooldown", "DisabledCommand"}
ErrorTypes ==
    IgnoredErrors \cup OwnerReinvokeErrors \cup
    {"MissingRequiredArgumentString", "MissingRequiredArgument",
     "UnexpectedQuoteError", "InvalidEndOfQuotedStringError",
     "ExpectedClosingQuoteError", "NSFWChannelRequired", "BotMissingAnyRole",
     "BotMissingRole", "BotMissingPermissions", "NoPrivateMessage",
     "PrivateMessageOnly", "NotOwner", "BadArgument", "BadUnionArgument",
     "TooManyArguments", "NotFound", "Forbidden", "HTTPException",
     "ClientOSError", "CommandInvokeError", "CheckFailure",
     "MaxConcurrencyReached"}

Mro(c) == {c} \cup (IF c \in {"NotFound", "Forbidden"} THEN {"HTTPException"} ELSE {})
isinstance(e, types) == Mro(e.type) \cap types # {}

\* One entry of the table: the types it matches and what its function builds.
\* The grave accents of the messages are written as apostrophes.
Entry(types, kind, a, b) == [types |-> types, kind |-> kind, a |-> a, b |-> b]

COMMAND_ERROR_RESPONSES == <<
    Entry({"MissingRequiredArgumentString"}, "text",
          "You're missing the 'x' argument, which is required for this command - see '!help c'.", ""),
    Entry({"MissingRequiredArgument"}, "text",
          "You're missing the 'x' argument, which is required for this command - see '!help c'.", ""),
    Entry({"UnexpectedQuoteError", "InvalidEndOfQuotedStringError", "ExpectedClosingQuoteError"}, "text",
          "The quotes in your message have been done incorrectly.", ""),
    Entry({"CommandOnCooldown"}, "text",
          "You can't use this command again for another 1 second.", ""),
    Entry({"NSFWChannelRequired"}, "text",
          "This command can't be run in a non-NSFW channel.", ""),
    Entry({"DisabledCommand"}, "text",
          "This command has been disabled.", ""),
    Entry({"MissingAnyRole"}, "text",
          "You need to have one of the 'r' roles to be able to run this command.", ""),
    Entry({"BotMissingAnyRole"}, "text",
          "I need to have one of the 'r' roles for you to be able to run this command.", ""),
    Entry({"MissingRole"}, "text",
          "You need to have the 'r' role to be able to run this command.", ""),
    Entry({"BotMissingRole"}, "text",
          "I need to have the 'r' role for you to be able to run this command.", ""),
    Entry({"MissingPermissions"}, "text",
          "You need the 'p' permission to run this command.", ""),
    Entry({"BotMissingPermissions"}, "text",
          "I need the 'p' permission for me to be able to run this command.", ""),
    Entry({"NoPrivateMessage"}, "text",
          "This command can't be run in DMs.", ""),
    Entry({"PrivateMessageOnly"}, "text",
          "This command can only be run in DMs.", ""),
    Entry({"NotOwner"}, "text",
          "You need to be registered as an owner to run this command.", ""),
    Entry({"BadArgument", "BadUnionArgument"}, "str(error)", "", ""),
    Entry({"TooManyArguments"}, "text",
          "You gave too many arguments to this command - see '!help c'.", ""),
    Entry({"NotFound"}, "None", "", ""),
    Entry({"Forbidden"}, "pair",
          "Discord is saying I'm unable to perform that action.",
          "Discord is saying I'm unable to perform that action - I probably don't have permission to talk in that channel."),
    Entry({"HTTPException", "ClientOSError"}, "status",
          "Discord messed up there somewhere - do you mind trying again? I received a 500 error.", "") >>

\* The index of the first entry that isinstance accepts, 0 when there is none.
FirstMatch(e) ==
    LET hits == {i \in DOMAIN COMMAND_ERROR_RESPONSES :
                    isinstance(e, COMMAND_ERROR_RESPONSES[i].types)}
    IN  IF hits = {} THEN 0 ELSE CHOOSE i \in hits : \A j \in hits : i <= j

\* function(ctx, error) of an entry: the value it returns or the exception it
\* raises. aiohttp.ClientOSError has no status attribute.
function(entry, e) ==
    CASE entry.kind = "text" -> [exc |-> "none", ret |-> PyStr(entry.a)]
      [] entry.kind = "str(error)" -> [exc |-> "none", ret |-> PyStr(e.text)]
      [] entry.kind = "None" -> [exc |-> "none", ret |-> None]
      [] entry.kind = "pair" ->
            [exc |-> "none", ret |-> PyTuple(<< PyStr(entry.a), PyStr(entry.b) >>)]
      [] entry.kind = "status" ->
            IF e.type = "ClientOSError"
            THEN [exc |-> "AttributeError", ret |-> None]
            ELSE [exc |-> "none", ret |-> PyStr(entry.a)]

\* Lines 161-165: the lookup loop.
Lookup(e) ==
    IF FirstMatch(e) = 0
    THEN [exc |-> "none", ret |-> None]
    ELSE function(COMMAND_ERROR_RESPONSES[FirstMatch(e)], e)

\* bool(v)
Truthy(v) ==
    CASE v.t = "None" -> FALSE
      [] v.t = "str" -> v.s # ""
      [] v.t = "tuple" -> v.items # << >>

\* What iterating v yields: the characters of a str, the items of a tuple.
Iter(v) ==
    IF v.t = "str"
    THEN [i \in 1..Len(v.s) |-> PyStr(SubSeq(v.s, i, i))]
    ELSE v.items

\* Lines 167-171: _, _ = output, and the positional arguments *output that
\* follow it. Unpacking an iterable of another length than two raises
\* ValueError; only a value that cannot be iterated raises TypeError.
Unpack(v) ==
    IF v.t \notin {"str", "tuple"}
    THEN [exc |-> "none", args |-> << v >>]
    ELSE IF Len(Iter(v)) # 2
         THEN [exc |-> "ValueError", args |-> << >>]
         ELSE [exc |-> "none", args |-> Iter(v)]

SendOutcomes == {"ok", "Forbidden", "NotFound", "HTTPException"}
Alphabet == "abcdefgh"
Texts == {SubSeq(Alphabet, 1, n) : n \in 0..MaxText}

Configs ==
    {None} \cup [dm_uncaught_errors : BOOLEAN, owners : 0..MaxOwners,
                 event_webhook_url : BOOLEAN]

\* on_command_error has been called and has not run yet.
HandlerCalled ==
    /\ error \in [type : ErrorTypes, text : Texts]
    /\ ctx \in [guild : BOOLEAN, owner : BOOLEAN]
    /\ config \in Configs
    /\ output = None
    /\ handler_pc = "called"
    /\ raised = "none"
    /\ text = None
    /\ author_text = None
    /\ channel_messages = << >>
    /\ author_messages = << >>
    /\ owner_messages = 0
    /\ webhook_messages = 0
    /\ owners_left = 0
    /\ reinvoked = 0

\* The paginator that stays untouched while the handler runs.
HandlerInit ==
    /\ PaginatorInit
    /\ data_kind = "sequence"
    /\ data = << >>
    /\ per_page = 1
    /\ formatter_kind = "str"
    /\ HandlerCalled

Ignored(e) == isinstance(e, IgnoredErrors)
OwnerBypassed(e, c) == c.owner /\ isinstance(e, OwnerReinvokeErrors)

\* Lines 139-171, up to the first await.
Dispatch ==
    /\ handler_pc = "called"
    /\ IF Ignored(error)
       THEN /\ handler_pc' = "returned"
            /\ UNCHANGED << output, raised, text, author_text >>
       ELSE IF OwnerBypassed(error, ctx)
       THEN /\ handler_pc' = "reinvoke"
            /\ UNCHANGED << output, raised, text, author_text >>
       ELSE IF Lookup(error).exc # "none"
       THEN /\ handler_pc' = "raised"
            /\ raised' = Lookup(error).exc
            /\ UNCHANGED << output, text, author_text >>
       ELSE IF ~Truthy(Lookup(error).ret)
       THEN /\ handler_pc' = "raw_send"
            /\ output' = Lookup(error).ret
            /\ UNCHANGED << raised, text, author_text >>
       ELSE LET u == Unpack(Lookup(error).ret)
            IN  IF u.exc # "none"
                THEN /\ handler_pc' = "raised"
                     /\ raised' = u.exc
                     /\ output' = Lookup(error).ret
                     /\ UNCHANGED << text, author_text >>
                ELSE /\ handler_pc' = "ctx_send"
                     /\ output' = PyTuple(u.args)
                     /\ text' = u.args[1]
                     /\ author_text' = IF Len(u.args) > 1 THEN u.args[2] ELSE None
                     /\ UNCHANGED raised
    /\ UNCHANGED << paginator_vars, error, ctx, config, channel_messages,
                    author_messages, owner_messages, webhook_messages,
                    owners_left, reinvoked >>

\* Line 158: return await ctx.reinvoke()
Reinvoke(ok) ==
    /\ handler_pc = "reinvoke"
    /\ reinvoked' = reinvoked + 1
    /\ IF ok
       THEN handler_pc' = "returned" /\ UNCHANGED raised
       ELSE handler_pc' = "raised" /\ raised' = "CommandError"
    /\ UNCHANGED << paginator_vars, error, ctx, config, output, text, author_text,
                    channel_messages, author_messages, owner_messages,
                    webhook_messages, owners_left >>

\* Lines 124-132: return await ctx.send(text)
CtxSend(outcome) ==
    /\ handler_pc = "ctx_send"
    /\ CASE outcome = "ok" ->
               /\ channel_messages' = Append(channel_messages, text)
               /\ handler_pc' = "returned"
               /\ UNCHANGED raised
         [] outcome = "Forbidden" ->
               /\ handler_pc' = "author_send"
               /\ UNCHANGED << channel_messages, raised >>
         [] outcome = "NotFound" ->
               /\ handler_pc' = "returned"
               /\ UNCHANGED << channel_messages, raised >>
         [] OTHER ->
               /\ handler_pc' = "raised"
               /\ raised' = outcome
               /\ UNCHANGED channel_messages
    /\ UNCHANGED << paginator_vars, error, ctx, config, output, text, author_text,
                    author_messages, owner_messages, webhook_messages,
                    owners_left, reinvoked >>

\* Line 127: author_text or text
AuthorText(t, a) == IF Truthy(a) THEN a ELSE t

\* Lines 126-129: return await ctx.author.send(author_text or text)
AuthorSend(outcome) ==
    /\ handler_pc = "author_send"
    /\ CASE outcome = "ok" ->
               /\ author_messages' = Append(author_messages, AuthorText(text, author_text))
               /\ handler_pc' = "returned"
               /\ UNCHANGED raised
         [] outcome = "Forbidden" ->
               /\ handler_pc' = "returned"
               /\ UNCHANGED << author_messages, raised >>
         [] OTHER ->
               /\ handler_pc' = "raised"
               /\ raised' = outcome
               /\ UNCHANGED author_messages
    /\ UNCHANGED << paginator_vars, error, ctx, config, output, text, author_text,
                    channel_messages, owner_messages, webhook_messages,
                    owners_left, reinvoked >>

\* Lines 195-208, from the end of the owner loop to the next await or to the
\* exception that leaves the handler.
AfterOwners(e, cfg) ==
    IF cfg = None
    THEN [pc |-> "raised", raised |-> "AttributeError"]
    ELSE IF cfg.event_webhook_url
         THEN [pc |-> "webhook_send", raised |-> "none"]
         ELSE [pc |-> "raised", raised |-> e.type]

\* Lines 180-208, from the raw send to the next await or to the exception
\* that leaves the handler.
Escalate(e, c, cfg) ==
    IF ~c.guild
    THEN [pc |-> "raised", raised |-> "AttributeError"]
    ELSE IF cfg # None /\ cfg.dm_uncaught_errors /\ cfg.owners > 0
         THEN [pc |-> "owner_send", raised |-> "none"]
         ELSE AfterOwners(e, cfg)

RawText(e) == "'''py\n" \o e.text \o "'''"

\* Lines 174-177: await ctx.send(the raw error text)
RawSend(outcome) ==
    /\ handler_pc = "raw_send"
    /\ channel_messages' = IF outcome = "ok"
                           THEN Append(channel_messages, PyStr(RawText(error)))
                           ELSE channel_messages
    /\ IF outcome \in {"ok", "Forbidden", "NotFound"}
       THEN /\ handler_pc' = Escalate(error, ctx, config).pc
            /\ raised' = Escalate(error, ctx, config).raised
            /\ owners_left' = IF handler_pc' = "owner_send" THEN config.owners ELSE 0
       ELSE /\ handler_pc' = "raised"
            /\ raised' = outcome
            /\ UNCHANGED owners_left
    /\ UNCHANGED << paginator_vars, error, ctx, config, output, text, author_text,
                    author_messages, owner_messages, webhook_messages, reinvoked >>

\* Lines 189-192: one pass of the owner loop.
OwnerSend(outcome) ==
    /\ handler_pc = "owner_send"
    /\ IF outcome = "ok"
       THEN /\ owner_messages' = owner_messages + 1
            /\ owners_left' = owners_left - 1
            /\ IF owners_left' > 0
               THEN UNCHANGED << handler_pc, raised >>
               ELSE /\ handler_pc' = AfterOwners(error, config).pc
                    /\ raised' = AfterOwners(error, config).raised
       ELSE /\ handler_pc' = "raised"
            /\ raised' = outcome
            /\ UNCHANGED << owner_messages, owners_left >>
    /\ UNCHANGED << paginator_vars, error, ctx, config, output, text, author_text,
                    channel_messages, author_messages, webhook_messages, reinvoked >>

\* Lines 196-208: await webhook.send(...), then raise error.
WebhookSend(outcome) ==
    /\ handler_pc = "webhook_send"
    /\ handler_pc' = "raised"
    /\ IF outcome = "ok"
       THEN webhook_messages' = webhook_messages + 1 /\ raised' = error.type
       ELSE UNCHANGED webhook_messages /\ raised' = outcome
    /\ UNCHANGED << paginator_vars, error, ctx, config, output, text, author_text,
                    channel_messages, author_messages, owner_messages,
                    owners_left, reinvoked >>

HandlerNext ==
    \/ Dispatch
    \/ \E ok \in BOOLEAN : Reinvoke(ok)
    \/ \E outcome \in SendOutcomes : CtxSend(outcome)
    \/ \E outcome \in SendOutcomes : AuthorSend(outcome)
    \/ \E outcome \in SendOutcomes : RawSend(outcome)
    \/ \E outcome \in SendOutcomes : OwnerSend(outcome)
    \/ \E outcome \in SendOutcomes : WebhookSend(outcome)

HandlerSpec == HandlerInit /\ [][HandlerNext]_vars

(* ------------------------------ properties ---------------------------- *)
Terminal == {"returned", "raised"}
IsSequence == data_kind \in SequenceKinds
GetPageStep == direct_calls' # direct_calls \/ get_page_calls' # get_page_calls
ReactionStep == events' # events

\* C1: whenever a page is about to be fetched and rendered, and whenever the
\* session waits for input, current_page is an int with
\* 0 <= current_page < max_pages; a reaction either leads to such a render or
\* leaves current_page None and stops the session.
C1_PageInRange ==
    /\ [](pc \in {"render", "await"} =>
            /\ current_page.t = "int"
            /\ max_pages.t = "int"
            /\ 0 <= current_page.v
            /\ current_page.v < max_pages.v)
    /\ [][ReactionStep =>
            \/ pc' = "render" /\ current_page'.t = "int"
            \/ pc' = "stopped" /\ current_page' = None
        ]_vars

\* The first reaction was previous-page on page 0: the candidate -1 was
\* clamped and page 0 is about to be fetched again.
C1_Witness ==
    /\ pc = "render"
    /\ events = 1
    /\ last_event.emoji = "previous"
    /\ current_page = PyInt(0)

CeilDiv(l, p) == CHOOSE k \in 0..l : k * p >= l /\ (k = 0 \/ (k - 1) * p < l)

\* The items at positions [n*P, min((n+1)*P, L)) of the data.
ExpectedPage(n) ==
    LET lo == n * per_page
        hi == Min((n + 1) * per_page, Len(data))
    IN  [i \in 1..(hi - lo) |-> data[lo + i]]

RECURSIVE ConcatPages(_, _)
ConcatPages(cache, n) ==
    IF n = 0 THEN << >> ELSE ConcatPages(cache, n - 1) \o cache[n - 1]

\* C2: for a sequence of length L and page size P, max_pages is ceil(L/P),
\* get_page(n) returns the items at [n*P, min((n+1)*P, L)) for every
\* 0 <= n < max_pages, and the pages in order make up the whole sequence.
C2_PagesPartitionData ==
    IsSequence =>
        /\ max_pages = PyInt(CeilDiv(Len(data), per_page))
        /\ \A n \in 0..(max_pages.v - 1) :
              /\ get_page(n).exc = "none"
              /\ get_page(n).ret = PyList(ExpectedPage(n))
              /\ n \in DOMAIN first_result => first_result[n].ret = PyList(ExpectedPage(n))
        /\ (result # None /\ result.page \in 0..(max_pages.v - 1)) =>
              result.ret = PyList(ExpectedPage(result.page))
        /\ (0..(max_pages.v - 1)) \subseteq DOMAIN _page_cache =>
              ConcatPages(_page_cache, max_pages.v) = data

\* Every page of a three-page sequence with a short last page has been fetched.
C2_Witness ==
    /\ IsSequence
    /\ max_pages = PyInt(3)
    /\ per_page = 2
    /\ Len(data) = 5
    /\ (0..2) \subseteq DOMAIN _page_cache
    /\ result.page = 2
    /\ result.ret = PyList(<< 5 >>)

\* C3: once get_page(n) has been called, a later get_page(n) returns what the
\* first call returned and does not go to the underlying source again.
C3_RepeatServedFromCache ==
    [][(GetPageStep /\ result'.page \in DOMAIN first_result) =>
          /\ result'.exc = "none"
          /\ result' = first_result[result'.page]
          /\ source_reads' = source_reads
      ]_vars

\* A generator-like source that has no batch left to give.
GeneratorExhausted ==
    /\ data_is_generator(data_kind)
    /\ Cardinality(DOMAIN _page_cache) >= Len(data)

\* C4: when get_page(n) pulls from a generator-like source that is exhausted,
\* max_pages becomes n, and from then on current_page lies in 0..n-1 whenever
\* a page is fetched or the session waits.
C4_ExhaustionFixesMaxPages ==
    /\ [][(GetPageStep /\ GeneratorExhausted /\ result'.page = Len(data)) =>
              max_pages' = PyInt(result'.page)
        ]_vars
    /\ []((data_is_generator(data_kind) /\ max_pages.t = "int" /\ pc \in {"render", "await"}) =>
              (0 <= current_page.v /\ current_page.v < max_pages.v))

\* C5: a session started on an empty sequence sends the "no data" notice and
\* nothing else: no placeholder, no reaction, no get_page, no formatter call,
\* no edit, no wait and no clear_reactions.
C5_EmptySendsOnlyNotice ==
    (IsSequence /\ Len(data) = 0 /\ pc # "init") =>
        /\ pc \in Terminal
        /\ sent = << "There's no data to be shown." >>
        /\ reaction_tasks = << >>
        /\ get_page_calls = 0
        /\ formatter_calls = 0
        /\ edits = 0
        /\ waits = 0
        /\ clear_calls = 0
        /\ subscriptions = {}

\* start has returned from a session on an empty sequence.
C5_Witness ==
    /\ IsSequence
    /\ Len(data) = 0
    /\ max_pages = PyInt(0)
    /\ pc = "returned"
    /\ Len(sent) = 1

\* C6: with max_pages == 1 at start the session renders page 0 once (one
\* get_page, one formatter call, one edit), attaches no reaction, never waits
\* and ends without going through the stopped state.
C6_SinglePageRendersOnce ==
    (max_pages = PyInt(1) /\ pc # "init") =>
        /\ pc \in {"render", "returned", "raised"}
        /\ reaction_tasks = << >>
        /\ waits = 0
        /\ clear_calls = 0
        /\ events = 0
        /\ get_page_calls <= 1
        /\ formatter_calls <= 1
        /\ edits <= 1
        /\ (pc = "returned" =>
              /\ get_page_calls = 1
              /\ formatter_calls = 1
              /\ edits = 1
              /\ result.page = 0
              /\ current_page = PyInt(0))

\* start has returned from a session on a single page.
C6_Witness ==
    /\ max_pages = PyInt(1)
    /\ Len(data) >= 1
    /\ pc = "returned"
    /\ edits = 1

\* C7: the stop symbol, added or removed, on whatever page, takes the session
\* to stopped; from stopped the only step is the one clear_reactions attempt,
\* after which start is over: no page is fetched or rendered and no wait is
\* begun any more.
C7_StopSymbolStops ==
    /\ [][(ReactionStep /\ last_event'.emoji = "stop") =>
              (pc' = "stopped" /\ current_page' = None)]_vars
    /\ [][pc = "stopped" =>
              /\ clear_calls' = clear_calls + 1
              /\ pc' \in Terminal
              /\ get_page_calls' = get_page_calls
              /\ formatter_calls' = formatter_calls
              /\ edits' = edits
              /\ waits' = waits]_vars
    /\ [][pc \notin Terminal]_vars
    /\ [](clear_calls <= 1)

\* The stop symbol was removed on a page other than the first, and the one
\* clear_reactions attempt has been made.
C7_Witness ==
    /\ pc = "returned"
    /\ events = 2
    /\ last_event.emoji = "stop"
    /\ last_event.event = "raw_reaction_remove"
    /\ 1 \in DOMAIN _page_cache
    /\ clear_calls = 1

\* C8: the last-page symbol sets current_page to max_pages - 1, with max_pages
\* as it is when the reaction is handled.
C8_LastPageLandsOnLast ==
    [][(ReactionStep /\ last_event'.emoji = "last") =>
          /\ pc' = "render"
          /\ max_pages.t = "int"
          /\ current_page' = PyInt(max_pages.v - 1)
      ]_vars

\* The last-page symbol was the first reaction of a session of three pages
\* or more: page 0 was left for the last page.
C8_Witness ==
    /\ pc = "render"
    /\ events = 1
    /\ last_event.emoji = "last"
    /\ max_pages.v >= 3
    /\ current_page = PyInt(max_pages.v - 1)

\* C9: a render whose normalised payload equals the payload of the previous
\* render of the session does not edit the message.
C9_EqualPayloadNotEdited ==
    [][(formatter_calls' # formatter_calls /\ prev_render' = prev_render) =>
          edits' = edits
      ]_vars

\* C10: a wait cycle that ends with no matching event ends when its time is
\* up and goes to stopped, where clear_reactions is attempted and start ends;
\* every wait begins with the whole timeout, and an event the check rejects
\* neither ends the wait nor renews its time.
C10_TimeoutPerWaitCycle ==
    /\ [][(pc = "await" /\ pc' # "await" /\ ~ReactionStep) =>
              (timer = 0 /\ pc' = "stopped")]_vars
    /\ [][(pc # "await" /\ pc' = "await") =>
              (timer' = TimeoutTicks /\ waits' = waits + 1)]_vars
    /\ [][ignored' # ignored => (pc' = "await" /\ timer' = timer)]_vars
    /\ [][(pc = "stopped" /\ current_page # None) =>
              (clear_calls' = 1 /\ pc' \in Terminal)]_vars

\* After a reaction and a fresh wait, the time ran out with nothing received
\* and the session ended with its clear_reactions attempt.
C10_Witness ==
    /\ pc = "returned"
    /\ events = 1
    /\ waits = 2
    /\ last_event.emoji = "next"
    /\ timer = 0
    /\ clear_calls = 1

\* C12: a failure of clear_reactions is ignored: from stopped, start returns
\* normally whatever clear_reactions does.
C12_ClearFailureIgnored ==
    [][pc = "stopped" => pc' = "returned"]_vars

\* C13: a failure of ctx.send or message.edit does not leave start as an
\* exception.
C13_SinkFailureCaught ==
    pc = "raised" => err # "HTTPException"

\* C14: max_pages does not change once it is an int, whatever page get_page
\* is asked for and whatever reaction is handled, and it is never negative.
C14_MaxPagesFinal ==
    /\ [][max_pages.t = "int" => max_pages' = max_pages]_vars
    /\ [](max_pages.t = "int" => max_pages.v >= 0)

\* get_page was asked for a page past the end of a sequence before the
\* session, a reaction was handled, and max_pages is what construction set.
C14_Witness ==
    /\ IsSequence
    /\ MaxLen \in DOMAIN _page_cache
    /\ _page_cache[MaxLen] = << >>
    /\ events >= 1
    /\ pc = "render"
    /\ max_pages = InitMaxPages(data_kind, data, per_page)
    /\ max_pages.v >= 2

\* C18: a generator-like source is pulled in order: a get_page(n) that goes to
\* the source follows exactly n successful pulls, and when the generator has
\* an (n+1)-th batch that batch becomes the cache entry of page n.
C18_GeneratorPulledInOrder ==
    /\ [][(get_page_calls' # get_page_calls /\ data_is_generator(data_kind)
             /\ source_reads' # source_reads) =>
              result'.page = Cardinality(DOMAIN _page_cache)]_vars
    /\ [][(GetPageStep /\ data_is_generator(data_kind)
             /\ source_reads' # source_reads
             /\ result'.page = Cardinality(DOMAIN _page_cache)
             /\ result'.page < Len(data)) =>
              /\ result'.page \in DOMAIN _page_cache'
              /\ _page_cache'[result'.page] = data[result'.page + 1]]_vars

\* C19: a session that attached the navigation reactions has attempted
\* clear_reactions by the time start is over.
C19_ReactionsCleared ==
    (pc \in Terminal /\ reaction_tasks # << >>) => clear_calls = 1

\* C20: no wait_for task is still pending when the next render begins or when
\* start is over.
C20_NoSubscriptionOutlives ==
    pc \in ({"render"} \cup Terminal) => subscriptions = {}

\* C11: the two subscriptions are raced: the task whose result is applied is
\* the first that completed, no subscription is left pending by a handled
\* reaction, and every wait cycle applies one reaction to current_page.
C11_FirstEventWins ==
    /\ [][ReactionStep =>
              /\ \A t \in done' : t.completed = "later"
              /\ subscriptions' = {}
              /\ events' = events + 1]_vars
    /\ [](pc = "await" => waits = events + 1)

(* ----------------------- properties of the handler ------------------- *)
HandlerTerminal == {"returned", "raised"}
Dispatched == handler_pc \notin {"idle", "called"}
Handled == ~Ignored(error) /\ ~OwnerBypassed(error, ctx)
Matched == FirstMatch(error) # 0
Returns(kinds) == Lookup(error).exc = "none" /\ Lookup(error).ret.t \in kinds
ChannelText ==
    IF Lookup(error).ret.t = "str" THEN Lookup(error).ret ELSE Lookup(error).ret.items[1]
FallbackText ==
    IF Lookup(error).ret.t = "str" THEN Lookup(error).ret ELSE Lookup(error).ret.items[2]

\* C15: an error that is handled and matched by a table entry whose function
\* returns a string or a pair is answered without escalation: only the string
\* (or the first of the pair) reaches the channel, only the string (or the
\* second of the pair) reaches the author's DMs, nothing goes to the owners or
\* the webhook, and the handler returns without raising.
C15_MatchedErrorAnswered ==
    (Dispatched /\ Handled /\ Matched /\ Returns({"str", "tuple"})) =>
        /\ handler_pc \in {"ctx_send", "author_send", "returned"}
        /\ channel_messages \in {<< >>, << ChannelText >>}
        /\ author_messages \in {<< >>, << FallbackText >>}
        /\ owner_messages = 0
        /\ webhook_messages = 0

\* C16: the raw send, the owner DMs and the webhook call happen only for an
\* error that no table entry matches, and a handled error whose entry returns
\* None is suppressed: the handler returns having sent nothing anywhere.
C16_NoneSuppresses ==
    /\ (\/ handler_pc \in {"raw_send", "owner_send", "webhook_send"}
        \/ owner_messages > 0
        \/ webhook_messages > 0) => ~Matched
    /\ (Dispatched /\ Handled /\ Matched /\ Returns({"None"})) =>
           /\ handler_pc = "returned"
           /\ channel_messages = << >>
           /\ author_messages = << >>
           /\ owner_messages = 0
           /\ webhook_messages = 0

\* C17: for a handled error that no table entry matches, the raw text is the
\* only channel message and is sent first, the owner DMs precede the webhook
\* call, and every run ends by raising the original error, after as many
\* owner DMs and webhook calls as the configuration asks for.
C17_UnmatchedReraised ==
    /\ [][(Handled /\ ~Matched) =>
              /\ channel_messages' # channel_messages =>
                     /\ handler_pc = "raw_send"
                     /\ channel_messages' = << PyStr(RawText(error)) >>
              /\ owner_messages' # owner_messages => handler_pc = "owner_send"
              /\ webhook_messages' # webhook_messages =>
                     handler_pc = "webhook_send" /\ owners_left = 0]_vars
    /\ []((Handled /\ ~Matched /\ handler_pc \in HandlerTerminal) =>
              /\ handler_pc = "raised"
              /\ raised = error.type
              /\ owner_messages = IF config # None /\ config.dm_uncaught_errors
                                  THEN config.owners ELSE 0
              /\ webhook_messages = IF config # None /\ config.event_webhook_url
                                    THEN 1 ELSE 0)

====
